---- MODULE Spec2Model ----
(***************************************************************************)
(* Model of the Go binding ebur128 (src/ebur128.go) and of the             *)
(* measurement state it drives through cgo.                                *)
(*                                                                         *)
(* The binding is modelled statement by statement: the argument            *)
(* conversions (C.uint, C.ulong, time.Duration.Milliseconds), the guards   *)
(* that panic, the native call, and newError on the return code.           *)
(* The native calls themselves are modelled from what the binding's doc    *)
(* comments state about them; the parts of the engine the doc comments do  *)
(* not describe (filtering, block accumulation, gating, combination of     *)
(* several states) follow the written design of the measurement engine.    *)
(*                                                                         *)
(* Numbers: a float64 result is a pair <<num, den>> (an energy or a peak   *)
(* as an exact rational); -HUGE_VAL is NegInf.  Loudness in LUFS is a      *)
(* strictly increasing function of the energy, so energies stand for it.   *)
(* A time.Duration is counted in ticks, TicksPerMs ticks to a millisecond. *)
(***************************************************************************)
EXTENDS Integers, Sequences, FiniteSets, TLC

VARIABLES st, last, ghost, sts, heap

vars == <<st, last, ghost, sts, heap>>

-----------------------------------------------------------------------------
(* Bounds of the model *)

\* width of C.uint, scaled down: C.uint(x) keeps x modulo CUintModulus
CUintModulus == 8
\* ticks of a time.Duration in one millisecond (1e6 ns in Go)
TicksPerMs == 2
\* frames fed to the state whose input is split into calls in every way
MaxFed == 10
\* states in the collection handed to the combiner
MaxStates == 2
\* AddFrames calls over the states of the collection
MaxMultiOps == 2
\* calls that change the measurement state (AddFrames, and the SetChannel,
\* ChangeParameters, SetMaxWindow and SetMaxHistory calls that succeed) over
\* a behaviour
MaxOps == 3

-----------------------------------------------------------------------------
(* Helpers *)

Max(a, b) == IF a >= b THEN a ELSE b

Abs(x) == IF x < 0 THEN -x ELSE x

RECURSIVE SumSeq(_)
SumSeq(s) == IF s = <<>> THEN 0 ELSE Head(s) + SumSeq(Tail(s))

RECURSIVE Concat(_)
Concat(ss) == IF ss = <<>> THEN <<>> ELSE Head(ss) \o Concat(Tail(ss))

\* the last n elements of s (all of s when it is shorter)
LastN(s, n) == IF Len(s) <= n THEN s ELSE SubSeq(s, Len(s) - n + 1, Len(s))

-----------------------------------------------------------------------------
(* Values of the binding *)

\* return codes of the native library, by name
EBUR128_SUCCESS == "EBUR128_SUCCESS"
EBUR128_ERROR_NOMEM == "EBUR128_ERROR_NOMEM"
EBUR128_ERROR_INVALID_MODE == "EBUR128_ERROR_INVALID_MODE"
EBUR128_ERROR_INVALID_CHANNEL_INDEX == "EBUR128_ERROR_INVALID_CHANNEL_INDEX"
EBUR128_ERROR_NO_CHANGE == "EBUR128_ERROR_NO_CHANGE"

\* the Go nil error
nil == "nil"

\* type ebur128Error C.int: the conversion keeps the code
ebur128Error(rc) == rc

ErrNomem == ebur128Error(EBUR128_ERROR_NOMEM)
ErrInvalidMode == ebur128Error(EBUR128_ERROR_INVALID_MODE)
ErrInvalidChannelIndex == ebur128Error(EBUR128_ERROR_INVALID_CHANNEL_INDEX)
ErrNoChange == ebur128Error(EBUR128_ERROR_NO_CHANGE)

\* faulty variant: the informational code is taken for success
newError_dropNoChange(rc) ==
    IF rc \in {EBUR128_SUCCESS, EBUR128_ERROR_NO_CHANGE} THEN nil ELSE ebur128Error(rc)

newError(rc) == IF rc = EBUR128_SUCCESS THEN nil ELSE ebur128Error(rc)

\* mode flags, as the sets of bits the or'ed constants stand for
ModeM == {"M"}
ModeS == {"S", "M"}
ModeI == {"I", "M"}
ModeLRA == {"LRA", "S", "M"}
ModeSamplePeak == {"SP", "M"}
ModeTruePeak == {"TP", "SP", "M"}

HasMode(mode, flag) == flag \subseteq mode

\* channel types
Unused == "Unused"
Left == "Left"
Right == "Right"
Center == "Center"
LeftSurround == "LeftSurround"
RightSurround == "RightSurround"
DualMono == "DualMono"

\* C.uint(x) of a Go uint: the low bits
CUint(x) == x % CUintModulus

\* time.Duration.Milliseconds(): integer division truncated toward zero
Milliseconds(d) == IF d >= 0 THEN d \div TicksPerMs ELSE -((-d) \div TicksPerMs)

\* float64 results
NegInf == <<-1, 0>>
Zero == <<0, 1>>
Float(n) == <<n, 1>>

-----------------------------------------------------------------------------
(* The native measurement state *)

Channels(s) == 0..(s.channels - 1)

\* default channel map: 0 -> Left, 1 -> Right, 2 -> Center, 3 -> Unused,
\* 4 -> LeftSurround, 5 -> RightSurround, Unused beyond
DefaultChannel(c) ==
    CASE c = 0 -> Left
      [] c = 1 -> Right
      [] c = 2 -> Center
      [] c = 4 -> LeftSurround
      [] c = 5 -> RightSurround
      [] OTHER -> Unused

init_channel_map(channels) == [c \in 0..(channels - 1) |-> DefaultChannel(c)]

\* frames in one 100 ms hop
samples_in_100ms(samplerate) == (samplerate + 5) \div 10

\* frames of the audio buffer for a window in milliseconds
audio_data_frames(samplerate, window) == (samplerate * window) \div 1000

\* window needed by the enabled modes: 3 s for short-term, 400 ms otherwise
MomentaryMs == 400
ShorttermMs == 3000
HopMs == 100

DefaultWindow(mode) == IF HasMode(mode, ModeS) THEN ShorttermMs ELSE MomentaryMs

\* smallest history: 3000 ms with ModeLRA, 400 ms with ModeM
MinHistory(mode) == IF HasMode(mode, ModeLRA) THEN ShorttermMs ELSE MomentaryMs

\* the default history, "at least ~50 days" (scaled: no behaviour reaches it)
ULONG_MAX == 1000000

ZeroPeaks(channels) == [c \in 0..(channels - 1) |-> 0]

\* the state ebur128_init returns
ebur128_init(channels, samplerate, mode) ==
    [ mode |-> mode,
      channels |-> channels,
      samplerate |-> samplerate,
      channel_map |-> init_channel_map(channels),
      window |-> DefaultWindow(mode),
      history |-> ULONG_MAX,
      v |-> ZeroPeaks(channels),
      audio_data |-> <<>>,
      needed_frames |-> samples_in_100ms(samplerate) * 4,
      short_term_frame_counter |-> 0,
      block_list |-> <<>>,
      short_term_block_list |-> <<>>,
      sample_peak |-> ZeroPeaks(channels),
      prev_sample_peak |-> ZeroPeaks(channels),
      true_peak |-> ZeroPeaks(channels),
      prev_true_peak |-> ZeroPeaks(channels),
      resampler |-> ZeroPeaks(channels) ]

-----------------------------------------------------------------------------
(* Adding frames.  A frame is a function from the channels to samples;     *)
(* src is a sequence of frames, frames = Len(src).                         *)

\* channel weights in hundredths: surround channels 1.41, dual mono counted
\* twice, unused channels not at all
ChannelWeight(tag) ==
    CASE tag = Unused -> 0
      [] tag \in {LeftSurround, RightSurround} -> 141
      [] tag = DualMono -> 200
      [] OTHER -> 100

\* pre-filter with one sample of history per channel (a first difference
\* stands for the two biquad stages)
FilterSample(x, prev) == x - prev

\* output of the true-peak interpolator for one input sample, in halves of a
\* sample unit: the point between the previous sample and this one, and the
\* sample itself
Interpolate(prev, x) == Max(Abs(prev + x), 2 * Abs(x))

\* weighted sum of squares of the last n frames of the audio buffer
RECURSIVE FramesEnergy(_, _)
FramesEnergy(frames, w) ==
    IF frames = <<>> THEN 0
    ELSE LET f == Head(frames)
             RECURSIVE ch(_)
             ch(c) == IF c < 0 THEN 0 ELSE w[c] * f[c] * f[c] + ch(c - 1)
         IN ch(Cardinality(DOMAIN f) - 1) + FramesEnergy(Tail(frames), w)

Weights(s) == [c \in Channels(s) |-> ChannelWeight(s.channel_map[c])]

\* mean square of the trailing interval_frames frames (the buffer holds zeros
\* where nothing was written yet), as the pair <<weighted sum, frames>>
ebur128_calc_gating_block(s, interval_frames) ==
    <<FramesEnergy(LastN(s.audio_data, interval_frames), Weights(s)), interval_frames>>

\* energy of one finalized 400 ms block, as an integer: mean square times 8
BlockEnergy(s) ==
    LET n == samples_in_100ms(s.samplerate) * 4
        e == ebur128_calc_gating_block(s, n)
    IN (e[1] * 8) \div n

\* energy of the trailing 3 s, same unit as BlockEnergy
ShorttermEnergy(s) ==
    LET n == samples_in_100ms(s.samplerate) * 30
        e == ebur128_calc_gating_block(s, n)
    IN (e[1] * 8) \div n

\* blocks the history may hold
block_list_max(s) == s.history \div HopMs

st_block_list_max(s) == s.history \div ShorttermMs

\* faulty variant: nothing is dropped
AppendBounded_keepAll(list, e, max) == Append(list, e)

\* append a block, dropping the oldest ones beyond max
AppendBounded(list, e, max) == LastN(Append(list, e), Max(max, 1))

\* a hop is complete: finalize a block and start the next hop
FinalizeBlock(s) ==
    LET hop == samples_in_100ms(s.samplerate)
        s1 == IF HasMode(s.mode, ModeI)
              THEN [s EXCEPT !.block_list =
                       AppendBounded(s.block_list, BlockEnergy(s), block_list_max(s))]
              ELSE s
        s2 == IF HasMode(s.mode, ModeLRA) /\ s1.short_term_frame_counter = hop * 30
              THEN [s1 EXCEPT !.short_term_block_list =
                        AppendBounded(s1.short_term_block_list, ShorttermEnergy(s1),
                                      st_block_list_max(s1)),
                              !.short_term_frame_counter = hop * 20]
              ELSE s1
    IN [s2 EXCEPT !.needed_frames = hop]

\* peak registers after one frame
TrackPeaks(s, f) ==
    LET sp == HasMode(s.mode, ModeSamplePeak)
        tp == HasMode(s.mode, ModeTruePeak)
    IN [s EXCEPT
          !.sample_peak = [c \in Channels(s) |->
              IF sp THEN Max(s.sample_peak[c], Abs(f[c])) ELSE s.sample_peak[c]],
          !.prev_sample_peak = [c \in Channels(s) |->
              IF sp THEN Max(s.prev_sample_peak[c], Abs(f[c])) ELSE s.prev_sample_peak[c]],
          !.true_peak = [c \in Channels(s) |->
              IF tp THEN Max(s.true_peak[c], Interpolate(s.resampler[c], f[c]))
              ELSE s.true_peak[c]],
          !.prev_true_peak = [c \in Channels(s) |->
              IF tp THEN Max(s.prev_true_peak[c], Interpolate(s.resampler[c], f[c]))
              ELSE s.prev_true_peak[c]],
          !.resampler = [c \in Channels(s) |-> IF tp THEN f[c] ELSE s.resampler[c]]]

RECURSIVE TrackAllPeaks(_, _)
TrackAllPeaks(s, src) ==
    IF src = <<>> THEN s ELSE TrackAllPeaks(TrackPeaks(s, Head(src)), Tail(src))

\* the frames of src through the pre-filter into the audio buffer
RECURSIVE ebur128_filter(_, _)
ebur128_filter(s, src) ==
    IF src = <<>> THEN s
    ELSE LET f == Head(src)
             y == [c \in Channels(s) |-> FilterSample(f[c], s.v[c])]
         IN ebur128_filter(
                [s EXCEPT !.v = f,
                          !.audio_data = LastN(Append(s.audio_data, y),
                                               audio_data_frames(s.samplerate, s.window))],
                Tail(src))

CountShortterm(s, n) ==
    IF HasMode(s.mode, ModeLRA)
    THEN [s EXCEPT !.short_term_frame_counter = @ + n]
    ELSE s

\* faulty variant: loses the frames left over after the last complete hop
Accumulate_dropRemainder(s, src) ==
    LET RECURSIVE go(_, _)
        go(x, rest) ==
            IF Len(rest) >= x.needed_frames
            THEN go(FinalizeBlock(CountShortterm(
                        ebur128_filter(x, SubSeq(rest, 1, x.needed_frames)),
                        x.needed_frames)),
                    SubSeq(rest, x.needed_frames + 1, Len(rest)))
            ELSE x
    IN go(s, src)

\* the block accumulator: while src holds the frames the pending hop still
\* needs, take them and finalize a block; keep the rest for the next call
RECURSIVE Accumulate(_, _)
Accumulate(s, src) ==
    IF src = <<>> THEN s
    ELSE IF Len(src) >= s.needed_frames
    THEN Accumulate(FinalizeBlock(CountShortterm(
                        ebur128_filter(s, SubSeq(src, 1, s.needed_frames)),
                        s.needed_frames)),
                    SubSeq(src, s.needed_frames + 1, Len(src)))
    ELSE [CountShortterm(ebur128_filter(s, src), Len(src))
             EXCEPT !.needed_frames = s.needed_frames - Len(src)]

\* faulty variant: keeps the since-last-call registers across calls
ebur128_add_frames_keepPrev(s, src) == Accumulate(TrackAllPeaks(s, src), src)

\* ebur128_add_frames_{short,int,float,double}: the since-last-call peaks
\* restart, the peaks of src are taken, and src goes to the accumulator
ebur128_add_frames(s, src) ==
    Accumulate(TrackAllPeaks([s EXCEPT !.prev_sample_peak = ZeroPeaks(s.channels),
                                       !.prev_true_peak = ZeroPeaks(s.channels)],
                             src),
               src)

-----------------------------------------------------------------------------
(* Configuration calls of the native library: each returns the return code *)
(* and the state after the call.                                           *)

Ret(rc, s, out) == [rc |-> rc, s |-> s, out |-> out]

ebur128_set_channel(s, channel_number, value) ==
    IF channel_number >= s.channels
    THEN Ret(EBUR128_ERROR_INVALID_CHANNEL_INDEX, s, Zero)
    ELSE Ret(EBUR128_SUCCESS, [s EXCEPT !.channel_map[channel_number] = value], Zero)

\* the buffer, the filter and the pending block start over
ResetAudio(s) ==
    [s EXCEPT !.v = ZeroPeaks(s.channels),
              !.resampler = ZeroPeaks(s.channels),
              !.audio_data = <<>>,
              !.needed_frames = samples_in_100ms(s.samplerate) * 4,
              !.short_term_frame_counter = 0]

\* faulty variant: goes through the reset although nothing changes
ebur128_change_parameters_alwaysReset(s, channels, samplerate) ==
    Ret(IF channels = s.channels /\ samplerate = s.samplerate
        THEN EBUR128_ERROR_NO_CHANGE ELSE EBUR128_SUCCESS,
        ResetAudio([s EXCEPT !.channels = channels, !.samplerate = samplerate,
                             !.channel_map = init_channel_map(channels),
                             !.sample_peak = ZeroPeaks(channels),
                             !.prev_sample_peak = ZeroPeaks(channels),
                             !.true_peak = ZeroPeaks(channels),
                             !.prev_true_peak = ZeroPeaks(channels)]),
        Zero)

\* faulty variant: a change of the sample rate alone keeps the pending block
\* and the filter state
ebur128_change_parameters_keepBlock(s, channels, samplerate) ==
    IF channels = s.channels /\ samplerate = s.samplerate
    THEN Ret(EBUR128_ERROR_NO_CHANGE, s, Zero)
    ELSE LET s1 == IF channels # s.channels
                   THEN [s EXCEPT !.channels = channels,
                                  !.channel_map = init_channel_map(channels),
                                  !.sample_peak = ZeroPeaks(channels),
                                  !.prev_sample_peak = ZeroPeaks(channels),
                                  !.true_peak = ZeroPeaks(channels),
                                  !.prev_true_peak = ZeroPeaks(channels),
                                  !.v = ZeroPeaks(channels),
                                  !.resampler = ZeroPeaks(channels),
                                  !.audio_data = <<>>]
                   ELSE s
         IN Ret(EBUR128_SUCCESS, [s1 EXCEPT !.samplerate = samplerate], Zero)

\* ErrNoChange when nothing changes; otherwise the channel map (and the
\* per-channel registers) are set up anew when the number of channels
\* differs, and the unfinished block is lost
ebur128_change_parameters(s, channels, samplerate) ==
    IF channels = s.channels /\ samplerate = s.samplerate
    THEN Ret(EBUR128_ERROR_NO_CHANGE, s, Zero)
    ELSE LET s1 == IF channels # s.channels
                   THEN [s EXCEPT !.channels = channels,
                                  !.channel_map = init_channel_map(channels),
                                  !.sample_peak = ZeroPeaks(channels),
                                  !.prev_sample_peak = ZeroPeaks(channels),
                                  !.true_peak = ZeroPeaks(channels),
                                  !.prev_true_peak = ZeroPeaks(channels)]
                   ELSE s
         IN Ret(EBUR128_SUCCESS, ResetAudio([s1 EXCEPT !.samplerate = samplerate]), Zero)

\* ErrNoChange when the window is unchanged; otherwise the content of the
\* audio buffer is destroyed
ebur128_set_max_window(s, window) ==
    IF window = s.window
    THEN Ret(EBUR128_ERROR_NO_CHANGE, s, Zero)
    ELSE Ret(EBUR128_SUCCESS, ResetAudio([s EXCEPT !.window = window]), Zero)

\* the history is at least MinHistory; ErrNoChange when it is unchanged;
\* stored blocks are dropped when the next block is appended
ebur128_set_max_history(s, history) ==
    LET h == Max(history, MinHistory(s.mode))
    IN IF h = s.history
       THEN Ret(EBUR128_ERROR_NO_CHANGE, s, Zero)
       ELSE Ret(EBUR128_SUCCESS, [s EXCEPT !.history = h], Zero)

-----------------------------------------------------------------------------
(* Gating and the queries of the native library *)

\* energy of the absolute threshold (-70 LUFS), in the unit of BlockEnergy
AbsThresholdEnergy == 100

AboveAbs(list) == SelectSeq(list, LAMBDA e: e >= AbsThresholdEnergy)

\* <<sum, count>> of the blocks at or above the absolute threshold
AbsGated(list) == <<SumSeq(AboveAbs(list)), Len(AboveAbs(list))>>

\* e is at or above the relative threshold, the mean of g = <<sum, count>>
\* divided by den (den = 10: 10 LU below the mean; den = 100: 20 LU below)
AboveRel(e, g, den) == e * den * g[2] >= g[1]

\* integrated energy of one pool of blocks: the mean of the blocks above both
\* thresholds, as <<sum, count>>; NegInf when no block is left
GatedLoudness(list) ==
    LET g == AbsGated(list)
        kept == SelectSeq(AboveAbs(list), LAMBDA e: AboveRel(e, g, 10))
    IN IF kept = <<>> THEN NegInf ELSE <<SumSeq(kept), Len(kept)>>

\* relative threshold of one pool: a tenth of the mean of the blocks above
\* the absolute threshold; the absolute threshold when there is none
RelativeThresholdOf(list) ==
    LET g == AbsGated(list)
    IN IF g[2] = 0 THEN Float(AbsThresholdEnergy) ELSE <<g[1], 10 * g[2]>>

RECURSIVE Insert(_, _)
Insert(e, sorted) ==
    IF sorted = <<>> THEN <<e>>
    ELSE IF e <= Head(sorted) THEN <<e>> \o sorted
    ELSE <<Head(sorted)>> \o Insert(e, Tail(sorted))

RECURSIVE SortAscending(_)
SortAscending(s) == IF s = <<>> THEN <<>> ELSE Insert(Head(s), SortAscending(Tail(s)))

\* loudness range of one pool of short-term energies: the energies above the
\* absolute threshold and above a hundredth of their mean (20 LU below),
\* sorted; the range is the ratio <<95th percentile, 10th percentile>>
RangeOf(list) ==
    LET g == AbsGated(list)
        kept == SortAscending(SelectSeq(AboveAbs(list), LAMBDA e: AboveRel(e, g, 100)))
        n == Len(kept)
        lo == kept[1 + ((n - 1) * 10 + 50) \div 100]
        hi == kept[1 + ((n - 1) * 95 + 50) \div 100]
    IN IF n = 0 THEN Zero ELSE <<hi, lo>>

EnergyOut(e) == IF e[1] <= 0 \/ e[2] <= 0 THEN NegInf ELSE e

ebur128_loudness_global(s) ==
    IF ~HasMode(s.mode, ModeI) THEN Ret(EBUR128_ERROR_INVALID_MODE, s, Zero)
    ELSE Ret(EBUR128_SUCCESS, s, GatedLoudness(s.block_list))

ebur128_relative_threshold(s) ==
    IF ~HasMode(s.mode, ModeI) THEN Ret(EBUR128_ERROR_INVALID_MODE, s, Zero)
    ELSE Ret(EBUR128_SUCCESS, s, RelativeThresholdOf(s.block_list))

ebur128_loudness_momentary(s) ==
    IF ~HasMode(s.mode, ModeM) THEN Ret(EBUR128_ERROR_INVALID_MODE, s, Zero)
    ELSE Ret(EBUR128_SUCCESS, s,
             EnergyOut(ebur128_calc_gating_block(s, samples_in_100ms(s.samplerate) * 4)))

ebur128_loudness_shortterm(s) ==
    IF ~HasMode(s.mode, ModeS) THEN Ret(EBUR128_ERROR_INVALID_MODE, s, Zero)
    ELSE Ret(EBUR128_SUCCESS, s,
             EnergyOut(ebur128_calc_gating_block(s, samples_in_100ms(s.samplerate) * 30)))

\* ErrInvalidMode if window is larger than the current window in the state
ebur128_loudness_window(s, window) ==
    IF window > s.window THEN Ret(EBUR128_ERROR_INVALID_MODE, s, Zero)
    ELSE Ret(EBUR128_SUCCESS, s,
             EnergyOut(ebur128_calc_gating_block(s, audio_data_frames(s.samplerate, window))))

ebur128_loudness_range(s) ==
    IF ~HasMode(s.mode, ModeLRA) THEN Ret(EBUR128_ERROR_INVALID_MODE, s, Zero)
    ELSE Ret(EBUR128_SUCCESS, s, RangeOf(s.short_term_block_list))

\* the four peak queries: the mode first, then the channel index
PeakQuery(s, flag, channel_number, register, den) ==
    IF ~HasMode(s.mode, flag) THEN Ret(EBUR128_ERROR_INVALID_MODE, s, Zero)
    ELSE IF channel_number >= s.channels
    THEN Ret(EBUR128_ERROR_INVALID_CHANNEL_INDEX, s, Zero)
    ELSE Ret(EBUR128_SUCCESS, s, <<register[channel_number], den>>)

ebur128_sample_peak(s, channel_number) ==
    PeakQuery(s, ModeSamplePeak, channel_number, s.sample_peak, 1)

ebur128_prev_sample_peak(s, channel_number) ==
    PeakQuery(s, ModeSamplePeak, channel_number, s.prev_sample_peak, 1)

ebur128_true_peak(s, channel_number) ==
    PeakQuery(s, ModeTruePeak, channel_number, s.true_peak, 2)

ebur128_prev_true_peak(s, channel_number) ==
    PeakQuery(s, ModeTruePeak, channel_number, s.prev_true_peak, 2)

-------------------------------------------------------------------------------------------------------------------------------------------------
(* The queries over several states.  The states are only read: one pass    *)
(* over all of them sums the blocks above the absolute threshold, a second *)
(* pass sums the blocks above the relative threshold that results.         *)

\* <<sum, count>> over the states of the blocks above the absolute
\* threshold and, when relative, above the relative threshold of g
RECURSIVE PoolSum(_, _, _)
PoolSum(states, relative, g) ==
    IF states = <<>> THEN <<0, 0>>
    ELSE LET kept == SelectSeq(Head(states).block_list,
                               LAMBDA e : /\ e >= AbsThresholdEnergy
                                          /\ relative => AboveRel(e, g, 10))
             rest == PoolSum(Tail(states), relative, g)
         IN <<SumSeq(kept) + rest[1], Len(kept) + rest[2]>>

ebur128_loudness_global_multiple(states, size) ==
    LET S == SubSeq(states, 1, size)
        g == PoolSum(S, FALSE, <<0, 0>>)
        k == PoolSum(S, TRUE, g)
    IN IF \E i \in 1..size : ~HasMode(S[i].mode, ModeI)
       THEN Ret(EBUR128_ERROR_INVALID_MODE, states, Zero)
       ELSE Ret(EBUR128_SUCCESS, states, IF k[2] = 0 THEN NegInf ELSE k)

\* the short-term energies above the absolute threshold, state after state
RECURSIVE GatherShortterm(_)
GatherShortterm(states) ==
    IF states = <<>> THEN <<>>
    ELSE AboveAbs(Head(states).short_term_block_list) \o GatherShortterm(Tail(states))

ebur128_loudness_range_multiple(states, size) ==
    LET S == SubSeq(states, 1, size)
        all == SortAscending(GatherShortterm(S))
        g == <<SumSeq(all), Len(all)>>
        kept == SelectSeq(all, LAMBDA e : AboveRel(e, g, 100))
        n == Len(kept)
    IN IF \E i \in 1..size : ~HasMode(S[i].mode, ModeLRA)
       THEN Ret(EBUR128_ERROR_INVALID_MODE, states, Zero)
       ELSE Ret(EBUR128_SUCCESS, states,
                IF n = 0 THEN Zero
                ELSE <<kept[1 + ((n - 1) * 95 + 50) \div 100],
                       kept[1 + ((n - 1) * 10 + 50) \div 100]>>)

-----------------------------------------------------------------------------
(* Inputs *)

Ms(n) == n * TicksPerMs

InitChannelCounts == {2}
InitSampleRates == {20}
ChannelCounts == {1, 2}
SampleRates == {10, 20}
ModeAll == ModeI \cup ModeLRA \cup ModeTruePeak
ModeInputs == {ModeM, ModeS \cup ModeSamplePeak, ModeAll}
\* Go uint channel numbers: in range, just out of range, and beyond C.uint
ChannelNumberInputs == {0, 2, CUintModulus}
ChannelTypeInputs == {Unused, LeftSurround}
\* time.Duration values in ticks
DurationInputs == {-1, 0, Ms(400) + 1, Ms(3000)}

\* the two frames that are added: samples <<channel 0, other channels>>
Frame(channels, pair) == [c \in 0..(channels - 1) |-> IF c = 0 THEN pair[1] ELSE pair[2]]

FrameA(channels) == Frame(channels, <<-2, 0>>)

FrameB(channels) == Frame(channels, <<1, -2>>)

\* src of n frames alternating between two frames
Alternate(f, g, n) == [i \in 1..n |-> IF i % 2 = 1 THEN f ELSE g]

\* the src arguments: no frame, one frame, and enough frames for a first
\* block and a started hop at 20 Hz
ChunkInputs(channels) ==
    { <<>>, <<FrameA(channels)>>, <<FrameB(channels)>>,
      Alternate(FrameB(channels), FrameA(channels), 9) }

-----------------------------------------------------------------------------
(* The binding.  last is what the last call gave back: err and out, whether *)
(* it panicked, and the native function it reached with which argument.    *)
(* ghost is bookkeeping: the creation mode, the window last accepted by    *)
(* SetMaxWindow, the src of the last AddFrames call with the interpolator   *)
(* history it started from, whether the parameters were changed since that *)
(* call, the measurement state before the last call, and the number of     *)
(* state-changing calls made so far.  heap is the allocation: what the     *)
(* caller's *State points at, whether ebur128_destroy has released the     *)
(* native state, and whether the last call was handed a released state.    *)

\* rc is the return code of the native call ("none": no call, or a call that
\* returns no code)
Returned(op, arg, r, ccall, carg) ==
    [op |-> op, arg |-> arg, err |-> newError(r.rc), out |-> r.out,
     panic |-> FALSE, ccall |-> ccall, carg |-> carg, rc |-> r.rc]

Panicked(op, arg) ==
    [op |-> op, arg |-> arg, err |-> nil, out |-> Zero,
     panic |-> TRUE, ccall |-> "none", carg |-> 0, rc |-> "none"]

\* the allocation after ebur128_init returned a state
LiveHeap == [handle |-> "state", released |-> FALSE, reached |-> FALSE,
             invalid |-> FALSE]

\* state after Init(channels, sampleRate, mode) returned a state and no error
Init ==
    \E channels \in InitChannelCounts, sampleRate \in InitSampleRates, mode \in ModeInputs :
        /\ st = ebur128_init(CUint(channels), sampleRate, mode)
        /\ last = [op |-> "Init", arg |-> <<channels, sampleRate>>, err |-> nil,
                   out |-> Zero, panic |-> FALSE, ccall |-> "ebur128_init",
                   carg |-> CUint(channels), rc |-> "none"]
        /\ ghost = [mode |-> mode, window |-> DefaultWindow(mode), ops |-> 0,
                    src |-> <<>>, res |-> st.resampler, stale |-> FALSE,
                    before |-> st, fed |-> <<>>]
        /\ sts = <<>>
        /\ heap = LiveHeap

\* a configuration call: the budget is charged when the native call succeeds
Configure(op, arg, r, ccall, carg) ==
    /\ ghost.ops < MaxOps
    /\ st' = r.s
    /\ last' = Returned(op, arg, r, ccall, carg)
    /\ ghost' = [ghost EXCEPT
                   !.ops = IF r.rc = EBUR128_SUCCESS THEN @ + 1 ELSE @,
                   !.window = IF op = "SetMaxWindow" /\ r.rc = EBUR128_SUCCESS
                              THEN carg ELSE @,
                   !.stale = IF op = "ChangeParameters" /\ r.rc = EBUR128_SUCCESS
                             THEN TRUE ELSE @,
                   !.before = st]
    /\ UNCHANGED <<sts, heap>>

\* a call that panics before it reaches the native library
Panic(op, arg) ==
    /\ last' = Panicked(op, arg)
    /\ ghost' = [ghost EXCEPT !.before = st]
    /\ UNCHANGED <<st, sts, heap>>

SetChannel ==
    \E channelNumber \in ChannelNumberInputs, value \in ChannelTypeInputs :
        Configure("SetChannel", <<channelNumber, 0>>,
                  ebur128_set_channel(st, CUint(channelNumber), value),
                  "ebur128_set_channel", CUint(channelNumber))

ChangeParameters ==
    \E channels \in ChannelCounts, sampleRate \in SampleRates :
        Configure("ChangeParameters", <<channels, sampleRate>>,
                  ebur128_change_parameters(st, CUint(channels), sampleRate),
                  "ebur128_change_parameters", CUint(channels))

\* faulty variant: has no guard: a negative duration reaches the native library
SetMaxWindow_noGuard ==
    \E window \in DurationInputs :
        Configure("SetMaxWindow", <<window, 0>>,
                  ebur128_set_max_window(st, Abs(Milliseconds(window))),
                  "ebur128_set_max_window", Abs(Milliseconds(window)))

SetMaxWindow ==
    \E window \in DurationInputs :
        IF window < 0
        THEN Panic("SetMaxWindow", <<window, 0>>)
        ELSE Configure("SetMaxWindow", <<window, 0>>,
                       ebur128_set_max_window(st, Milliseconds(window)),
                       "ebur128_set_max_window", Milliseconds(window))

SetMaxHistory ==
    \E history \in DurationInputs :
        IF history < 0
        THEN Panic("SetMaxHistory", <<history, 0>>)
        ELSE Configure("SetMaxHistory", <<history, 0>>,
                       ebur128_set_max_history(st, Milliseconds(history)),
                       "ebur128_set_max_history", Milliseconds(history))

\* AddFramesShort/Int/Float/Double(src, frames) with frames = len(src)/channels:
\* the four differ in the sample type alone
AddFrames(op, ccall) ==
    /\ ghost.ops < MaxOps
    /\ \E src \in ChunkInputs(st.channels) :
          LET r == Ret(EBUR128_SUCCESS, ebur128_add_frames(st, src), Zero)
          IN /\ st' = r.s
             /\ last' = Returned(op, <<Len(src), 0>>, r, ccall, Len(src))
             /\ ghost' = [ghost EXCEPT !.ops = @ + 1, !.src = src,
                                       !.res = st.resampler, !.stale = FALSE,
                                       !.before = st]
    /\ UNCHANGED <<sts, heap>>

AddFramesShort == AddFrames("AddFramesShort", "ebur128_add_frames_short")

AddFramesInt == AddFrames("AddFramesInt", "ebur128_add_frames_int")

AddFramesFloat == AddFrames("AddFramesFloat", "ebur128_add_frames_float")

AddFramesDouble == AddFrames("AddFramesDouble", "ebur128_add_frames_double")

\* a query: the native call is handed the state and an out parameter
Query(op, arg, r, ccall, carg) ==
    /\ st' = r.s
    /\ last' = Returned(op, arg, r, ccall, carg)
    /\ ghost' = [ghost EXCEPT !.before = st]
    /\ UNCHANGED <<sts, heap>>

LoudnessGlobal ==
    Query("LoudnessGlobal", <<0, 0>>, ebur128_loudness_global(st),
          "ebur128_loudness_global", 0)

LoudnessMomentary ==
    Query("LoudnessMomentary", <<0, 0>>, ebur128_loudness_momentary(st),
          "ebur128_loudness_momentary", 0)

\* faulty variant: forwards to the short-term query
LoudnessRange_callsShortterm ==
    Query("LoudnessRange", <<0, 0>>, ebur128_loudness_shortterm(st),
          "ebur128_loudness_shortterm", 0)

LoudnessShortterm ==
    Query("LoudnessShortterm", <<0, 0>>, ebur128_loudness_shortterm(st),
          "ebur128_loudness_shortterm", 0)

\* faulty variant: forwards the duration as it is, not in milliseconds
LoudnessWindow_rawDuration ==
    \E window \in DurationInputs :
        IF window < 0
        THEN Panic("LoudnessWindow", <<window, 0>>)
        ELSE Query("LoudnessWindow", <<window, 0>>,
                   ebur128_loudness_window(st, window),
                   "ebur128_loudness_window", window)

LoudnessWindow ==
    \E window \in DurationInputs :
        IF window < 0
        THEN Panic("LoudnessWindow", <<window, 0>>)
        ELSE Query("LoudnessWindow", <<window, 0>>,
                   ebur128_loudness_window(st, Milliseconds(window)),
                   "ebur128_loudness_window", Milliseconds(window))

LoudnessRange ==
    Query("LoudnessRange", <<0, 0>>, ebur128_loudness_range(st),
          "ebur128_loudness_range", 0)

\* faulty variant: forwards to the since-last-call query
SamplePeak_callsPrevSamplePeak ==
    \E channelNumber \in ChannelNumberInputs :
        Query("SamplePeak", <<channelNumber, 0>>,
              ebur128_prev_sample_peak(st, CUint(channelNumber)),
              "ebur128_prev_sample_peak", CUint(channelNumber))

SamplePeak ==
    \E channelNumber \in ChannelNumberInputs :
        Query("SamplePeak", <<channelNumber, 0>>,
              ebur128_sample_peak(st, CUint(channelNumber)),
              "ebur128_sample_peak", CUint(channelNumber))

\* faulty variant: forwards to the all-time query
PrevSamplePeak_callsSamplePeak ==
    \E channelNumber \in ChannelNumberInputs :
        Query("PrevSamplePeak", <<channelNumber, 0>>,
              ebur128_sample_peak(st, CUint(channelNumber)),
              "ebur128_sample_peak", CUint(channelNumber))

PrevSamplePeak ==
    \E channelNumber \in ChannelNumberInputs :
        Query("PrevSamplePeak", <<channelNumber, 0>>,
              ebur128_prev_sample_peak(st, CUint(channelNumber)),
              "ebur128_prev_sample_peak", CUint(channelNumber))

TruePeak ==
    \E channelNumber \in ChannelNumberInputs :
        Query("TruePeak", <<channelNumber, 0>>,
              ebur128_true_peak(st, CUint(channelNumber)),
              "ebur128_true_peak", CUint(channelNumber))

PrevTruePeak ==
    \E channelNumber \in ChannelNumberInputs :
        Query("PrevTruePeak", <<channelNumber, 0>>,
              ebur128_prev_true_peak(st, CUint(channelNumber)),
              "ebur128_prev_true_peak", CUint(channelNumber))

RelativeThreshold ==
    Query("RelativeThreshold", <<0, 0>>, ebur128_relative_threshold(st),
          "ebur128_relative_threshold", 0)

Next ==
    \/ SetChannel
    \/ ChangeParameters
    \/ SetMaxWindow
    \/ SetMaxHistory
    \/ AddFramesShort
    \/ AddFramesInt
    \/ AddFramesFloat
    \/ AddFramesDouble
    \/ LoudnessGlobal
    \/ LoudnessMomentary
    \/ LoudnessShortterm
    \/ LoudnessWindow
    \/ LoudnessRange
    \/ SamplePeak
    \/ PrevSamplePeak
    \/ TruePeak
    \/ PrevTruePeak
    \/ RelativeThreshold

Spec == Init /\ [][Next]_vars

-----------------------------------------------------------------------------
(* One frame sequence split into AddFrames calls in every way: a state     *)
(* with integrated loudness and peaks is fed calls of one to three frames, *)
(* which fall anywhere with respect to the 2-frame hop and the 8-frame     *)
(* block; ghost.fed is the sequence of all the frames fed so far.          *)

ChunkMode == ModeI \cup ModeSamplePeak

\* the src arguments: every sequence of one to three of the two frames
ChunkedInputs(channels) ==
    LET F == {FrameA(channels), FrameB(channels)}
    IN UNION { [1..n -> F] : n \in 1..3 }

InitChunk ==
    \E channels \in InitChannelCounts, sampleRate \in InitSampleRates :
        /\ st = ebur128_init(CUint(channels), sampleRate, ChunkMode)
        /\ last = [op |-> "Init", arg |-> <<channels, sampleRate>>, err |-> nil,
                   out |-> Zero, panic |-> FALSE, ccall |-> "ebur128_init",
                   carg |-> CUint(channels), rc |-> "none"]
        /\ ghost = [mode |-> ChunkMode, window |-> DefaultWindow(ChunkMode), ops |-> 0,
                    src |-> <<>>, res |-> st.resampler, stale |-> FALSE,
                    before |-> st, fed |-> <<>>]
        /\ sts = <<>>
        /\ heap = LiveHeap

ChunkedAdd(op, ccall) ==
    /\ \E src \in ChunkedInputs(st.channels) :
          /\ Len(ghost.fed) + Len(src) <= MaxFed
          /\ LET r == Ret(EBUR128_SUCCESS, ebur128_add_frames(st, src), Zero)
             IN /\ st' = r.s
                /\ last' = Returned(op, <<Len(src), 0>>, r, ccall, Len(src))
                /\ ghost' = [ghost EXCEPT !.src = src, !.res = st.resampler,
                                          !.before = st, !.fed = @ \o src]
    /\ UNCHANGED <<sts, heap>>

ChunkedAddFramesShort == ChunkedAdd("AddFramesShort", "ebur128_add_frames_short")

ChunkedAddFramesDouble == ChunkedAdd("AddFramesDouble", "ebur128_add_frames_double")

NextChunk ==
    \/ ChunkedAddFramesShort
    \/ ChunkedAddFramesDouble
    \/ LoudnessGlobal
    \/ RelativeThreshold

SpecChunk == InitChunk /\ [][NextChunk]_vars

\* the same feeding, with the sample peaks read in between
ChunkedAddFramesInt == ChunkedAdd("AddFramesInt", "ebur128_add_frames_int")

ChunkedAddFramesFloat == ChunkedAdd("AddFramesFloat", "ebur128_add_frames_float")

NextPeak ==
    \/ ChunkedAddFramesInt
    \/ ChunkedAddFramesFloat
    \/ SamplePeak
    \/ PrevSamplePeak

SpecPeak == InitChunk /\ [][NextPeak]_vars

-----------------------------------------------------------------------------
(* A collection of states, each fed on its own, and the queries over the   *)
(* collection.  In this specification ghost.before is the collection       *)
(* before the last call.                                                   *)

MultiSampleRates == {10}
\* channel count and mode of a state of the collection
MultiConfigs == {<<1, ModeAll>>, <<2, ModeAll>>, <<2, ModeI \cup ModeSamplePeak>>}

FrameQ(channels) == Frame(channels, <<1, 0>>)

FrameZ(channels) == Frame(channels, <<0, 0>>)

\* the src arguments: a quiet stretch of two blocks, and loud and mixed
\* stretches long enough for the first short-term values (30 frames, then
\* one for every 10 more)
MultiInputs(channels) ==
    { <<FrameQ(channels)>> \o [i \in 1..4 |-> FrameZ(channels)],
      Alternate(FrameB(channels), FrameA(channels), 30),
      Alternate(FrameQ(channels), FrameB(channels), 40) }

InitMulti ==
    /\ \E n \in 1..MaxStates :
          sts \in [1..n -> { ebur128_init(cfg[1], sampleRate, cfg[2]) :
                               cfg \in MultiConfigs, sampleRate \in MultiSampleRates }]
    /\ st = sts[1]
    /\ last = [op |-> "Init", arg |-> <<Len(sts), 0>>, err |-> nil,
               out |-> Zero, panic |-> FALSE, ccall |-> "ebur128_init", carg |-> 0, rc |-> "none"]
    /\ ghost = [mode |-> ModeM, window |-> DefaultWindow(ModeM), ops |-> 0,
                src |-> <<>>, res |-> st.resampler, stale |-> FALSE,
                before |-> sts, fed |-> <<>>]
    /\ heap = LiveHeap

\* AddFramesFloat on one state of the collection
MultiAddFramesFloat ==
    /\ ghost.ops < MaxMultiOps
    /\ \E i \in DOMAIN sts : \E src \in MultiInputs(sts[i].channels) :
          LET r == Ret(EBUR128_SUCCESS, ebur128_add_frames(sts[i], src), Zero)
          IN /\ sts' = [sts EXCEPT ![i] = r.s]
             /\ last' = Returned("AddFramesFloat", <<Len(src), i>>, r,
                                 "ebur128_add_frames_float", Len(src))
             /\ ghost' = [ghost EXCEPT !.ops = @ + 1, !.before = sts]
    /\ UNCHANGED <<st, heap>>

\* faulty variant: hands over one state less than the slice holds
States_c_dropLast(states) == <<states, Len(states) - 1>>

\* States.c(): the data of the slice and its length
States_c(states) == <<states, Len(states)>>

\* a query over the collection
MultiQuery(op, r, ccall, size) ==
    /\ sts' = r.s
    /\ last' = Returned(op, <<Len(sts), 0>>, r, ccall, size)
    /\ ghost' = [ghost EXCEPT !.before = sts]
    /\ UNCHANGED <<st, heap>>

StatesLoudnessGlobal ==
    LET c == States_c(sts)
    IN MultiQuery("States.LoudnessGlobal", ebur128_loudness_global_multiple(c[1], c[2]),
                  "ebur128_loudness_global_multiple", c[2])

StatesLoudnessRange ==
    LET c == States_c(sts)
    IN MultiQuery("States.LoudnessRange", ebur128_loudness_range_multiple(c[1], c[2]),
                  "ebur128_loudness_range_multiple", c[2])

NextMulti ==
    \/ MultiAddFramesFloat
    \/ StatesLoudnessGlobal
    \/ StatesLoudnessRange

SpecMulti == InitMulti /\ [][NextMulti]_vars

-----------------------------------------------------------------------------
(* The life of one state: Init may fail, a native allocation may fail in   *)
(* a later call, and Destroy releases the native state.  The caller keeps  *)
(* its *State through all of it and may go on calling methods on it.       *)

LifeModes == {ModeS \cup ModeSamplePeak}

NULL == "NULL"

\* what Init returns for the pointer ebur128_init gave back
InitReturn(cst) == IF cst = NULL THEN <<"nil", ErrNomem>> ELSE <<"state", nil>>

\* state after Init returned: ebur128_init gives a state, or NULL when it
\* cannot allocate one
InitLife ==
    \E channels \in InitChannelCounts, sampleRate \in InitSampleRates,
       mode \in LifeModes, cst \in {"state", NULL} :
        /\ st = ebur128_init(CUint(channels), sampleRate, mode)
        /\ last = [op |-> "Init", arg |-> <<channels, sampleRate>>,
                   err |-> InitReturn(cst)[2], out |-> Zero, panic |-> FALSE,
                   ccall |-> "ebur128_init", carg |-> CUint(channels), rc |-> "none"]
        /\ ghost = [mode |-> mode, window |-> DefaultWindow(mode), ops |-> 0,
                    src |-> <<>>, res |-> st.resampler, stale |-> FALSE,
                    before |-> st, fed |-> <<>>]
        /\ sts = <<>>
        /\ heap = [LiveHeap EXCEPT !.handle = InitReturn(cst)[1]]

\* the caller holds a state that is neither released nor left invalid by a
\* failed allocation
Alive == heap.handle = "state" /\ ~heap.released /\ ~heap.invalid

\* any method on a state that is alive
LiveCall == Alive /\ Next

\* the calls documented to return ErrNomem, when the allocation fails; after
\* ChangeParameters and SetMaxWindow the state is then invalid and must be
\* destroyed
NoMemory ==
    /\ Alive
    /\ \E call \in { <<"ChangeParameters", "ebur128_change_parameters">>,
                     <<"SetMaxWindow", "ebur128_set_max_window">>,
                     <<"AddFramesShort", "ebur128_add_frames_short">>,
                     <<"LoudnessRange", "ebur128_loudness_range">> } :
          /\ call[1] = "LoudnessRange" => HasMode(st.mode, ModeLRA)
          /\ last' = Returned(call[1],
                              IF call[1] = "ChangeParameters"
                              THEN <<st.channels, st.samplerate + 10>>
                              ELSE IF call[1] = "SetMaxWindow" THEN <<Ms(st.window + 1), 0>>
                              ELSE <<0, 0>>,
                              Ret(EBUR128_ERROR_NOMEM, st, Zero), call[2], 0)
          /\ heap' = [heap EXCEPT !.invalid = call[1] \in {"ChangeParameters", "SetMaxWindow"}]
    /\ ghost' = [ghost EXCEPT !.before = st]
    /\ UNCHANGED <<st, sts>>

\* C.ebur128_destroy(&cst): releases the native state behind cst and sets
\* cst, the variable it is given the address of, to NULL
ebur128_destroy(cst) == [cst |-> NULL, released |-> TRUE]

\* what memory that was released may hold when it is read again
Garbage(s) == {s, ebur128_init(1, s.samplerate, ModeM)}

\* Destroy copies the receiver into the local cst and hands &cst to
\* ebur128_destroy: the local is set to NULL, the caller's *State is not.
\* On a state already released the native state is released a second time.
Destroy ==
    /\ heap.handle = "state"
    /\ LET d == ebur128_destroy(heap.handle)
       IN /\ heap' = [heap EXCEPT !.released = d.released, !.reached = heap.released]
          /\ st' \in (IF heap.released THEN Garbage(st) ELSE {st})
    /\ last' = [op |-> "Destroy", arg |-> <<0, 0>>, err |-> nil, out |-> Zero,
                panic |-> FALSE, ccall |-> "ebur128_destroy", carg |-> 0, rc |-> "none"]
    /\ ghost' = [ghost EXCEPT !.before = st]
    /\ UNCHANGED sts

\* a method called on the *State after Destroy: st.c() is the pointer to the
\* released native state and the native function is handed it; what it
\* reads, writes and returns is whatever the released memory gives
UseReleased ==
    /\ heap.handle = "state"
    /\ heap.released
    /\ \E call \in { <<"AddFramesShort", "ebur128_add_frames_short">>,
                     <<"ChangeParameters", "ebur128_change_parameters">>,
                     <<"LoudnessGlobal", "ebur128_loudness_global">> },
          rc \in {EBUR128_SUCCESS, EBUR128_ERROR_NOMEM, EBUR128_ERROR_INVALID_MODE,
                  EBUR128_ERROR_NO_CHANGE},
          s \in Garbage(st) :
          /\ st' = s
          /\ last' = Returned(call[1], <<0, 0>>, Ret(rc, s, Zero), call[2], 0)
    /\ heap' = [heap EXCEPT !.reached = TRUE]
    /\ ghost' = [ghost EXCEPT !.before = st]
    /\ UNCHANGED sts

NextLife ==
    \/ LiveCall
    \/ NoMemory
    \/ Destroy
    \/ UseReleased

SpecLife == InitLife /\ [][NextLife]_vars

-----------------------------------------------------------------------------
(* A state with integrated loudness whose history is made short: at 10 Hz  *)
(* a hop is one frame, so one call of nine frames finalizes six blocks and *)
(* the smallest history, 400 ms, holds four.                               *)

InitHistory ==
    \E channels \in InitChannelCounts, sampleRate \in MultiSampleRates :
        /\ st = ebur128_init(CUint(channels), sampleRate, ChunkMode)
        /\ last = [op |-> "Init", arg |-> <<channels, sampleRate>>, err |-> nil,
                   out |-> Zero, panic |-> FALSE, ccall |-> "ebur128_init",
                   carg |-> CUint(channels), rc |-> "none"]
        /\ ghost = [mode |-> ChunkMode, window |-> DefaultWindow(ChunkMode), ops |-> 0,
                    src |-> <<>>, res |-> st.resampler, stale |-> FALSE,
                    before |-> st, fed |-> <<>>]
        /\ sts = <<>>
        /\ heap = LiveHeap

NextHistory ==
    \/ SetMaxHistory
    \/ AddFramesShort
    \/ AddFramesDouble
    \/ LoudnessGlobal

SpecHistory == InitHistory /\ [][NextHistory]_vars

-----------------------------------------------------------------------------
(* Properties *)

AddOps == {"AddFramesShort", "AddFramesInt", "AddFramesFloat", "AddFramesDouble"}
PeakOps == {"SamplePeak", "PrevSamplePeak", "TruePeak", "PrevTruePeak"}
DurationOps == {"SetMaxWindow", "SetMaxHistory", "LoudnessWindow"}

\* the mode flag a query is documented to need
FlagOf(op) ==
    CASE op = "LoudnessMomentary" -> ModeM
      [] op = "LoudnessShortterm" -> ModeS
      [] op \in {"LoudnessGlobal", "RelativeThreshold"} -> ModeI
      [] op = "LoudnessRange" -> ModeLRA
      [] op \in {"SamplePeak", "PrevSamplePeak"} -> ModeSamplePeak
      [] op \in {"TruePeak", "PrevTruePeak"} -> ModeTruePeak

GatedOps == {"LoudnessMomentary", "LoudnessShortterm", "LoudnessGlobal",
             "RelativeThreshold", "LoudnessRange"} \cup PeakOps

\* C1: after any sequence of calls the mode is the one given to Init, and a
\* query returns ErrInvalidMode exactly when its flag is missing from it.
C1_CapabilityGating ==
    /\ st.mode = ghost.mode
    /\ last.op \in GatedOps =>
          (last.err = ErrInvalidMode <=> ~HasMode(ghost.mode, FlagOf(last.op)))

\* C1 witness: after state-changing calls, LoudnessRange is refused on a state
\* created with the short-term flag but without ModeLRA.
C1_Witness ==
    /\ last.op = "LoudnessRange"
    /\ last.err = ErrInvalidMode
    /\ HasMode(ghost.mode, ModeS)
    /\ ghost.ops = MaxOps
    /\ st.samplerate # ghost.before.samplerate \/ ghost.src # <<>>

\* C2: LoudnessWindow(w) returns ErrInvalidMode when w, in the whole
\* milliseconds that are forwarded, is larger than the window last accepted
\* by SetMaxWindow (or the creation default), and no error otherwise.
C2_WindowRange ==
    (last.op = "LoudnessWindow" /\ ~last.panic) =>
        LET w == last.arg[1] \div TicksPerMs
        IN /\ w > ghost.window => last.err = ErrInvalidMode
           /\ w <= ghost.window => last.err = nil

\* C2 witness: a window that the creation default would have allowed is
\* refused after SetMaxWindow made the window smaller.
C2_Witness ==
    /\ last.op = "LoudnessWindow"
    /\ last.err = ErrInvalidMode
    /\ ghost.window < DefaultWindow(ghost.mode)
    /\ last.arg[1] \div TicksPerMs <= DefaultWindow(ghost.mode)

PeaksOf(s) == <<s.sample_peak, s.prev_sample_peak, s.true_peak, s.prev_true_peak>>

\* C3 as claimed: a call with a channel number outside 0..channels-1 (and,
\* for a peak query, with its mode flag set) returns ErrInvalidChannelIndex
\* and leaves the channel map and the peak registers as they were.
C3_InvalidChannelIndex ==
    ( /\ last.op \in PeakOps \cup {"SetChannel"}
      /\ last.arg[1] \notin 0..(ghost.before.channels - 1)
      /\ last.op \in PeakOps => HasMode(ghost.mode, FlagOf(last.op)) )
    => /\ last.err = ErrInvalidChannelIndex
       /\ st.channel_map = ghost.before.channel_map
       /\ PeaksOf(st) = PeaksOf(ghost.before)

\* C4: ChangeParameters with the current channel count and sample rate
\* returns ErrNoChange and the measurement state is what it was.
C4_NoChange ==
    ( /\ last.op = "ChangeParameters"
      /\ last.arg = <<ghost.before.channels, ghost.before.samplerate>> )
    => /\ last.err = ErrNoChange
       /\ st = ghost.before

\* C4 witness: the call is made on a state with a finalized block, a started
\* hop, peaks and a channel map that is not the default.
C4_Witness ==
    /\ last.op = "ChangeParameters"
    /\ last.err = ErrNoChange
    /\ st.block_list # <<>>
    /\ st.needed_frames < samples_in_100ms(st.samplerate)
    /\ st.sample_peak[0] > 0
    /\ st.channel_map # init_channel_map(st.channels)

AudioReset(s) ==
    /\ s.audio_data = <<>>
    /\ s.v = ZeroPeaks(s.channels)
    /\ s.needed_frames = samples_in_100ms(s.samplerate) * 4

\* C5 as claimed: a successful ChangeParameters discards the partial block
\* and the filter state and resets the channel map to the defaults.
C5_ReconfigureResetsAll ==
    (last.op = "ChangeParameters" /\ last.err = nil) =>
        /\ AudioReset(st)
        /\ st.channel_map = init_channel_map(st.channels)

\* C5 amended: a successful ChangeParameters discards the partial block and
\* the filter state; the channel map is reset to the defaults when the number
\* of channels differs and kept when only the sample rate differs.
C5_ReconfigureAmended ==
    (last.op = "ChangeParameters" /\ last.err = nil) =>
        /\ AudioReset(st)
        /\ st.channels # ghost.before.channels =>
              st.channel_map = init_channel_map(st.channels)
        /\ st.channels = ghost.before.channels =>
              st.channel_map = ghost.before.channel_map

\* C5 witness: the number of channels changes on a state with a SetChannel
\* assignment and a started block.
C5_Witness ==
    /\ last.op = "ChangeParameters"
    /\ last.err = nil
    /\ st.channels # ghost.before.channels
    /\ ghost.before.channel_map # init_channel_map(ghost.before.channels)
    /\ ghost.before.audio_data # <<>>

NativeOf(op) ==
    CASE op = "SetMaxWindow" -> "ebur128_set_max_window"
      [] op = "SetMaxHistory" -> "ebur128_set_max_history"
      [] op = "LoudnessWindow" -> "ebur128_loudness_window"

\* C6: SetMaxWindow, SetMaxHistory and LoudnessWindow with a negative
\* duration panic without reaching the native library, return no error value
\* and leave the state alone; with a non-negative duration they do not panic
\* and forward the duration truncated to whole milliseconds.
C6_NegativeDuration ==
    last.op \in DurationOps =>
        /\ last.arg[1] < 0 =>
              /\ last.panic
              /\ last.ccall = "none"
              /\ st = ghost.before
        /\ last.arg[1] >= 0 =>
              /\ ~last.panic
              /\ last.ccall = NativeOf(last.op)
              /\ last.carg * TicksPerMs <= last.arg[1]
              /\ last.arg[1] < (last.carg + 1) * TicksPerMs

\* C6 witness: SetMaxHistory panics on a state that holds audio.
C6_Witness ==
    /\ last.op = "SetMaxHistory"
    /\ last.panic
    /\ st.audio_data # <<>>

\* largest sample magnitude of channel c in src
RECURSIVE ChunkSamplePeak(_, _)
ChunkSamplePeak(src, c) ==
    IF src = <<>> THEN 0 ELSE Max(Abs(Head(src)[c]), ChunkSamplePeak(Tail(src), c))

\* largest interpolated magnitude of channel c over src, the interpolator
\* starting from the sample prev
RECURSIVE ChunkTruePeak(_, _, _)
ChunkTruePeak(prev, src, c) ==
    IF src = <<>> THEN 0
    ELSE Max(Interpolate(prev, Head(src)[c]), ChunkTruePeak(Head(src)[c], Tail(src), c))

\* C7 as claimed: the since-last-call peak accumulates over the add calls
\* (an add never lowers the register) and is reset by the read (after
\* PrevSamplePeak or PrevTruePeak the register of that channel is zero).
C7_PrevPeakAccumulates ==
    /\ last.op \in AddOps =>
          \A c \in Channels(st) :
              /\ st.prev_sample_peak[c] >= ghost.before.prev_sample_peak[c]
              /\ st.prev_true_peak[c] >= ghost.before.prev_true_peak[c]
    /\ (last.op = "PrevSamplePeak" /\ last.err = nil) =>
          st.prev_sample_peak[last.carg] = 0
    /\ (last.op = "PrevTruePeak" /\ last.err = nil) =>
          st.prev_true_peak[last.carg] = 0

\* C7 amended: every add call restarts the since-last-call registers, which
\* then hold the peaks of the frames of that call alone, whatever they held
\* before; reading them does not reset them.
C7_PrevPeakRestarts ==
    /\ last.op \in AddOps =>
          \A c \in Channels(st) :
              /\ HasMode(st.mode, ModeSamplePeak) =>
                    st.prev_sample_peak[c] = ChunkSamplePeak(ghost.src, c)
              /\ HasMode(st.mode, ModeTruePeak) =>
                    st.prev_true_peak[c] = ChunkTruePeak(ghost.before.resampler[c], ghost.src, c)
    /\ last.op \in {"PrevSamplePeak", "PrevTruePeak"} =>
          PeaksOf(st) = PeaksOf(ghost.before)

\* C7 witness: an add call lowers a since-last-call register that an earlier
\* add call had raised.
C7_Witness ==
    /\ last.op \in AddOps
    /\ st.prev_sample_peak[0] < ghost.before.prev_sample_peak[0]
    /\ st.prev_sample_peak[0] > 0

FilteredFrom(fed) ==
    [i \in 1..Len(fed) |->
        [c \in DOMAIN fed[i] |-> FilterSample(fed[i][c], IF i = 1 THEN 0 ELSE fed[i - 1][c])]]

\* the blocks of a whole sequence, by definition: one block for every hop
\* boundary from 400 ms on, over the 400 ms that end there
BlocksOf(fed, samplerate, w) ==
    LET hop == samples_in_100ms(samplerate)
        y == FilteredFrom(fed)
        count == IF Len(fed) < 4 * hop THEN 0 ELSE (Len(fed) - 4 * hop) \div hop + 1
    IN [k \in 1..count |->
          (FramesEnergy(SubSeq(y, (k - 1) * hop + 1, (k + 3) * hop), w) * 8) \div (4 * hop)]

\* C9: however the frames were split into calls, the finalized blocks are
\* the blocks of the whole sequence and the same as after one call with all
\* the frames, and so are the integrated loudness and the relative threshold.
C9_ChunkingInvariance ==
    LET whole == ebur128_add_frames(ebur128_init(st.channels, st.samplerate, ghost.mode),
                                    ghost.fed)
        blocks == BlocksOf(ghost.fed, st.samplerate, Weights(st))
    IN /\ st.block_list = blocks
       /\ st.block_list = whole.block_list
       /\ st.audio_data = whole.audio_data
       /\ st.sample_peak = whole.sample_peak
       /\ last.op = "LoudnessGlobal" =>
             last.out = ebur128_loudness_global(whole).out
       /\ last.op = "RelativeThreshold" =>
             last.out = ebur128_relative_threshold(whole).out

\* C9 witness: two blocks are finalized from calls that do not line up with
\* the hops, and the integrated loudness is read and is not silence.
C9_Witness ==
    /\ last.op = "LoudnessGlobal"
    /\ last.out # NegInf
    /\ Len(st.block_list) = 2
    /\ Len(ghost.src) = 3
    /\ Len(ghost.fed) = 10

MultiOps == {"States.LoudnessGlobal", "States.LoudnessRange"}

RECURSIVE AllBlocks(_)
AllBlocks(states) ==
    IF states = <<>> THEN <<>> ELSE Head(states).block_list \o AllBlocks(Tail(states))

RECURSIVE AllShortterm(_)
AllShortterm(states) ==
    IF states = <<>> THEN <<>>
    ELSE Head(states).short_term_block_list \o AllShortterm(Tail(states))

\* C10: States.LoudnessGlobal and States.LoudnessRange leave every state of
\* the collection as it was, and what they return is the integrated loudness
\* (the range) of one pool made of the blocks (the short-term values) of all
\* the states.
C10_CombinerReadsOnly ==
    last.op \in MultiOps =>
        /\ sts = ghost.before
        /\ (last.op = "States.LoudnessGlobal" /\ last.err = nil) =>
              last.out = GatedLoudness(AllBlocks(sts))
        /\ (last.op = "States.LoudnessRange" /\ last.err = nil) =>
              last.out = RangeOf(AllShortterm(sts))

\* C10 witness: two states with different channel counts both hold blocks,
\* the relative threshold of the pool gates some of them out, and the result
\* over the pool is the result of neither state alone.
C10_Witness ==
    /\ last.op = "States.LoudnessGlobal"
    /\ last.err = nil
    /\ Len(sts) = 2
    /\ sts[1].channels # sts[2].channels
    /\ last.out # NegInf
    /\ last.out # GatedLoudness(sts[1].block_list)
    /\ last.out # GatedLoudness(sts[2].block_list)
    /\ last.out[2] < Len(AboveAbs(AllBlocks(sts)))

\* C11 as claimed: Destroyed is terminal; after Destroy the handle the caller
\* holds no longer leads to the native state (it is invalidated), and no call
\* is ever handed a released native state.
C11_DestroyedIsTerminal ==
    /\ heap.released => heap.handle # "state"
    /\ ~heap.reached

\* the codes a native function returns
ReturnCodes == {EBUR128_SUCCESS, EBUR128_ERROR_NOMEM, EBUR128_ERROR_INVALID_MODE,
                EBUR128_ERROR_INVALID_CHANNEL_INDEX, EBUR128_ERROR_NO_CHANGE}

\* the sentinel error of a return code
SentinelOf(rc) ==
    CASE rc = EBUR128_ERROR_NOMEM -> ErrNomem
      [] rc = EBUR128_ERROR_INVALID_MODE -> ErrInvalidMode
      [] rc = EBUR128_ERROR_INVALID_CHANNEL_INDEX -> ErrInvalidChannelIndex
      [] rc = EBUR128_ERROR_NO_CHANGE -> ErrNoChange

\* C12: whenever a native function returned a code, the error is nil exactly
\* when the code is SUCCESS and the matching sentinel otherwise, never an
\* error holding SUCCESS; Init gives a state and nil, or no state and ErrNomem.
C12_ErrorTranslation ==
    /\ last.rc \in ReturnCodes =>
          /\ last.err = nil <=> last.rc = EBUR128_SUCCESS
          /\ last.rc # EBUR128_SUCCESS => last.err = SentinelOf(last.rc)
          /\ last.err # ebur128Error(EBUR128_SUCCESS)
    /\ (last.rc = "none" /\ last.op # "Init") => last.err = nil
    /\ last.op = "Init" =>
          \/ heap.handle = "state" /\ last.err = nil
          \/ heap.handle = "nil" /\ last.err = ErrNomem

\* C12 witness: ErrNoChange, the code that is not a failure, comes back as an
\* error from a call on a state that a failed allocation has not invalidated.
C12_Witness ==
    /\ last.rc = EBUR128_ERROR_NO_CHANGE
    /\ last.err = ErrNoChange
    /\ last.op = "SetMaxHistory"
    /\ ghost.ops > 0

\* the channel map has just been set up: by Init, or by a ChangeParameters
\* that changed the number of channels
MapReset ==
    \/ last.op = "Init" /\ last.err = nil
    \/ /\ last.op = "ChangeParameters"
       /\ last.err = nil
       /\ st.channels # ghost.before.channels

\* C13 as claimed: a channel map that has just been set up is 0 -> Left,
\* 1 -> Right, 2 -> Center, 3 -> Unused, 4 -> LeftSurround,
\* 5 -> RightSurround and Unused from 6 on; otherwise an entry differs from
\* what it was before the last call only when that call is a successful
\* SetChannel with the index of that entry.
C13_DefaultChannelMap ==
    /\ MapReset =>
          \A c \in Channels(st) :
              st.channel_map[c] =
                  IF c >= 6 THEN Unused
                  ELSE <<Left, Right, Center, Unused, LeftSurround, RightSurround>>[c + 1]
    /\ ~MapReset =>
          \A c \in Channels(st) :
              st.channel_map[c] # ghost.before.channel_map[c] =>
                  /\ last.op = "SetChannel"
                  /\ last.err = nil
                  /\ last.arg[1] = c

\* C14: with ModeSamplePeak the all-time sample peak of every channel is
\* the largest sample magnitude of that channel over all the frames added so
\* far (zero before the first add), SamplePeak returns it, no add and no
\* query lowers it, and PrevSamplePeak leaves it as it is.
C14_SamplePeakAllTime ==
    /\ \A c \in Channels(st) :
          /\ st.sample_peak[c] = ChunkSamplePeak(ghost.fed, c)
          /\ st.sample_peak[c] >= ghost.before.sample_peak[c]
    /\ (last.op = "SamplePeak" /\ last.err = nil) =>
          last.out = Float(ChunkSamplePeak(ghost.fed, last.carg))
    /\ last.op = "PrevSamplePeak" => st.sample_peak = ghost.before.sample_peak

\* C14 witness: SamplePeak returns a peak that came from an earlier call:
\* the last call's own peak is smaller.
C14_Witness ==
    /\ last.op = "SamplePeak"
    /\ last.err = nil
    /\ last.out[1] = 2
    /\ st.prev_sample_peak[last.carg] = 1
    /\ Len(ghost.fed) > Len(ghost.src)

\* blocks a call finalizes: one when the pending hop is completed, and one
\* for every further hop the call holds
BlocksFinalized(before, src) ==
    IF Len(src) < before.needed_frames THEN 0
    ELSE 1 + (Len(src) - before.needed_frames) \div samples_in_100ms(before.samplerate)

\* C15: an add call appends one block per completed hop; the blocks stored
\* before it are kept as they were, oldest first dropped, and once a block
\* was appended the list holds at most history / 100 ms blocks; a call that
\* appends nothing, SetMaxHistory included, leaves the list as it is.
C15_HistoryBound ==
    LET k == IF last.op \in AddOps THEN BlocksFinalized(ghost.before, ghost.src) ELSE 0
        n == Len(st.block_list)
        old == ghost.before.block_list
        kept == Max(n - k, 0)
    IN /\ k = 0 => st.block_list = old
       /\ k > 0 =>
             /\ n <= st.history \div HopMs
             /\ n = Max(1, IF Len(old) + k <= st.history \div HopMs
                           THEN Len(old) + k ELSE st.history \div HopMs)
             /\ SubSeq(st.block_list, 1, kept) = LastN(old, kept)

\* C15 witness: SetMaxHistory left more blocks than the new history holds,
\* and the add call that follows appends a block and drops the excess.
C15_Witness ==
    /\ last.op \in AddOps
    /\ BlocksFinalized(ghost.before, ghost.src) > 0
    /\ Len(ghost.before.block_list) > ghost.before.history \div HopMs
    /\ Len(st.block_list) = st.history \div HopMs

====
